---- MODULE Spec2Model ----
(***************************************************************************)
(* jacks-blackjack: the run_app driver loop with its Menu and About        *)
(* screens, the StrategyCalculatorScreen (rule toggles, strategy cache,    *)
(* exact-match / fallback resolution) and the BlackjackStrategy lookups.   *)
(*                                                                         *)
(* run_app (main.rs:40-63) never constructs a StrategyCalculatorScreen, so *)
(* the calculator is exercised by a second initial condition in which the  *)
(* screen held by the loop is StrategyCalculatorScreen::new(); the lookups *)
(* of BlackjackStrategy are pure and are applied to drawn inputs by a      *)
(* third one.                                                              *)
(***************************************************************************)
EXTENDS Integers, Sequences, FiniteSets, TLC

\* ---------------------------------------------------------------- bounds
\* largest number of entries of resources/strategies
MaxFiles == 2
\* hand totals drawn for a lookup are 0..MaxTotal
MaxTotal == 23
\* dealer upcards drawn for a lookup are 0..MaxUpcard
MaxUpcard == 13
\* number of lines of ABOUT_US_TEXT (constants.rs is not in the tree)
TextLines == 3
\* largest height of the About content area
MaxHeight == 5

\* ------------------------------------------------------ integer widths
AsU8(n) == n % 256

AsI8(n) == ((n + 128) % 256) - 128

\* Option<T>: <<>> is None, <<x>> is Some(x)
None == <<>>

Some(x) == <<x>>

\* ------------------------------------------------------- SurrenderRule
SurrenderRule == {"NotAllowed", "AnyUpcard", "Dealer2Through10"}

\* every string parses: unknown literals are read as NotAllowed
SurrenderRule_from_string_lenient(str_value) ==
    CASE str_value = "Any Dealer Upcard" -> [ok |-> TRUE, value |-> "AnyUpcard"]
      [] str_value = "Dealer 2 through 10" -> [ok |-> TRUE, value |-> "Dealer2Through10"]
      [] OTHER -> [ok |-> TRUE, value |-> "NotAllowed"]

\* SurrenderRule::from_string: Result<SurrenderRule, String>
SurrenderRule_from_string(str_value) ==
    CASE str_value = "Not Allowed" -> [ok |-> TRUE, value |-> "NotAllowed"]
      [] str_value = "Any Dealer Upcard" -> [ok |-> TRUE, value |-> "AnyUpcard"]
      [] str_value = "Dealer 2 through 10" -> [ok |-> TRUE, value |-> "Dealer2Through10"]
      [] OTHER -> [ok |-> FALSE, value |-> "Unknown Surrender Rule"]

SurrenderRule_to_string(rule) ==
    CASE rule = "NotAllowed" -> "Not Allowed"
      [] rule = "AnyUpcard" -> "Any Dealer Upcard"
      [] rule = "Dealer2Through10" -> "Dealer 2 through 10"

\* -------------------------------------------------------- PlayerAction
PlayerAction == {"Hit", "Stand", "DoubleOrHit", "DoubleOrStand", "Split",
                 "SurrenderOrHit", "SurrenderOrStand", "SplitOrHit"}

\* every string decodes: unknown codes are read as Hit
from_code_string_lenient(code) ==
    CASE code = "S" -> [ok |-> TRUE, value |-> "Stand"]
      [] code = "D" -> [ok |-> TRUE, value |-> "DoubleOrHit"]
      [] code = "Ds" -> [ok |-> TRUE, value |-> "DoubleOrStand"]
      [] code = "P" -> [ok |-> TRUE, value |-> "Split"]
      [] code = "Su" -> [ok |-> TRUE, value |-> "SurrenderOrHit"]
      [] code = "Rs" -> [ok |-> TRUE, value |-> "SurrenderOrStand"]
      [] code = "Ph" -> [ok |-> TRUE, value |-> "SplitOrHit"]
      [] OTHER -> [ok |-> TRUE, value |-> "Hit"]

\* PlayerAction::from_code_string: Result<PlayerAction, String>
from_code_string(code) ==
    CASE code = "H" -> [ok |-> TRUE, value |-> "Hit"]
      [] code = "S" -> [ok |-> TRUE, value |-> "Stand"]
      [] code = "D" -> [ok |-> TRUE, value |-> "DoubleOrHit"]
      [] code = "Ds" -> [ok |-> TRUE, value |-> "DoubleOrStand"]
      [] code = "P" -> [ok |-> TRUE, value |-> "Split"]
      [] code = "Su" -> [ok |-> TRUE, value |-> "SurrenderOrHit"]
      [] code = "Rs" -> [ok |-> TRUE, value |-> "SurrenderOrStand"]
      [] code = "Ph" -> [ok |-> TRUE, value |-> "SplitOrHit"]
      [] OTHER -> [ok |-> FALSE, value |-> "Unknown action code"]

\* SurrenderOrStand encoded with the code of SurrenderOrHit
to_code_string_merged(action) ==
    CASE action = "Hit" -> "H"
      [] action = "Stand" -> "S"
      [] action = "DoubleOrHit" -> "D"
      [] action = "DoubleOrStand" -> "Ds"
      [] action = "Split" -> "P"
      [] action = "SurrenderOrHit" -> "Su"
      [] action = "SurrenderOrStand" -> "Su"
      [] action = "SplitOrHit" -> "Ph"

\* PlayerAction::to_code_string
to_code_string(action) ==
    CASE action = "Hit" -> "H"
      [] action = "Stand" -> "S"
      [] action = "DoubleOrHit" -> "D"
      [] action = "DoubleOrStand" -> "Ds"
      [] action = "Split" -> "P"
      [] action = "SurrenderOrHit" -> "Su"
      [] action = "SurrenderOrStand" -> "Rs"
      [] action = "SplitOrHit" -> "Ph"

\* ---------------------------------------------------- BlackjackStrategy
NilUuid == "00000000-0000-0000-0000-000000000000"

\* Uuid::new_v4(): some identifier that is not the nil one
NewV4 == "new_v4"

\* BlackjackStrategy::new()
BlackjackStrategy_new ==
    [id |-> NewV4,
     name |-> "Default Strategy",
     rules |-> [decks |-> 1,
                dealer_stands_on_soft_17 |-> TRUE,
                double_after_split |-> TRUE,
                dealer_peak |-> TRUE,
                surrender_allowed |-> "NotAllowed"],
     tables |-> [hard_hands |-> <<>>, soft_hands |-> <<>>, pair_hands |-> <<>>]]

\* A source text as serde_json sees it: whether it is well-formed JSON of the
\* schema, its id ("absent" when the field is missing), the surrender literal
\* and the other fields.
\* BlackjackStrategy::from_json: Result<BlackjackStrategy, serde_json::Error>
from_json(json) ==
    LET surr == SurrenderRule_from_string(json.rules.surrender_allowed)
    IN  IF ~json.well_formed \/ json.id = "absent" \/ ~surr.ok
        THEN [ok |-> FALSE, value |-> BlackjackStrategy_new]
        ELSE [ok |-> TRUE,
              value |-> [id |-> IF json.id = NilUuid THEN NewV4 ELSE json.id,
                         name |-> json.name,
                         rules |-> [decks |-> json.rules.decks,
                                    dealer_stands_on_soft_17 |-> json.rules.dealer_stands_on_soft_17,
                                    double_after_split |-> json.rules.double_after_split,
                                    dealer_peak |-> json.rules.dealer_peak,
                                    surrender_allowed |-> surr.value],
                         tables |-> json.tables]]

\* BlackjackStrategy::from_file: read_to_string, then from_json
from_file(entry) ==
    IF ~entry.readable
    THEN [ok |-> FALSE, value |-> BlackjackStrategy_new]
    ELSE from_json(entry.json)

\* first row of a table whose total (pair) equals the one asked for
RECURSIVE FindRow(_, _, _)
FindRow(rows, total, i) ==
    IF i > Len(rows) THEN None
    ELSE IF rows[i].total = total THEN Some(rows[i])
    ELSE FindRow(rows, total, i + 1)

Ok(action) == [ok |-> TRUE, value |-> action]

Err(message) == [ok |-> FALSE, value |-> message]

\* the table is scanned first and the upcard is checked before the total
get_hard_hand_action_scan_first(strategy, total, dealer_upcard) ==
    LET row == FindRow(strategy.tables.hard_hands, total, 1)
    IN  IF row = None THEN Err("No strategy for hard hand")
        ELSE IF ~(dealer_upcard \in 2..11) THEN Err("Invalid dealer upcard")
        ELSE IF ~(total \in 5..21) THEN Err("Invalid hard hand total")
        ELSE LET index == AsU8(dealer_upcard - 2)
             IN  IF index + 1 > Len(row[1].actions)
                 THEN Err("Missing action for dealer upcard")
                 ELSE from_code_string(row[1].actions[index + 1])

\* index upcard-1 instead of upcard-2 (an off-by-one in the column)
get_hard_hand_action_shifted(strategy, total, dealer_upcard) ==
    IF ~(total \in 5..21) THEN Err("Invalid hard hand total")
    ELSE IF ~(dealer_upcard \in 2..11) THEN Err("Invalid dealer upcard")
    ELSE LET row == FindRow(strategy.tables.hard_hands, total, 1)
         IN  IF row = None THEN Err("No strategy for hard hand")
             ELSE LET index == dealer_upcard - 1
                  IN  IF index + 1 > Len(row[1].actions)
                      THEN Err("Missing action for dealer upcard")
                      ELSE from_code_string(row[1].actions[index + 1])

\* BlackjackStrategy::get_hard_hand_action(&self, total: u8, dealer_upcard: u8)
get_hard_hand_action(strategy, total, dealer_upcard) ==
    IF ~(total \in 5..21) THEN Err("Invalid hard hand total")
    ELSE IF ~(dealer_upcard \in 2..11) THEN Err("Invalid dealer upcard")
    ELSE LET row == FindRow(strategy.tables.hard_hands, total, 1)
         IN  IF row = None THEN Err("No strategy for hard hand")
             ELSE LET index == AsU8(dealer_upcard - 2)
                  IN  IF index + 1 > Len(row[1].actions)
                      THEN Err("Missing action for dealer upcard")
                      ELSE from_code_string(row[1].actions[index + 1])

\* BlackjackStrategy::get_soft_hand_action
get_soft_hand_action(strategy, total, dealer_upcard) == Err("Not implemented")

\* BlackjackStrategy::get_pair_action
get_pair_action(strategy, single_card_value, dealer_upcard) == Err("Not implemented")

\* ------------------------------------------- resources/strategies entries
Rules(decks, s17, das, peak, surr) ==
    [decks |-> decks,
     dealer_stands_on_soft_17 |-> s17,
     double_after_split |-> das,
     dealer_peak |-> peak,
     surrender_allowed |-> surr]

RowD == <<"D", "D", "D", "D", "D", "D", "D", "D", "H", "H">>

RowS == <<"S", "S", "S", "S", "S", "H", "H", "H", "H", "H">>

RowMixed == <<"H", "S", "D", "Ds", "P", "Su", "Rs", "Ph", "S", "H">>

RowShort == <<"H", "S", "D">>

RowUnknown == <<"H", "X", "S", "S", "S", "S", "S", "S", "S", "Zz">>

TablesBasic ==
    [hard_hands |-> <<[total |-> 10, actions |-> RowD],
                      [total |-> 16, actions |-> RowS],
                      [total |-> 21, actions |-> RowMixed]>>,
     soft_hands |-> <<[total |-> 18, actions |-> RowS]>>,
     pair_hands |-> <<[pair |-> 7, actions |-> RowMixed]>>]

TablesOdd ==
    [hard_hands |-> <<[total |-> 5, actions |-> RowShort],
                      [total |-> 16, actions |-> RowUnknown],
                      [total |-> 16, actions |-> RowD]>>,
     soft_hands |-> <<[total |-> 13, actions |-> RowMixed],
                      [total |-> 3, actions |-> RowShort]>>,
     pair_hands |-> <<[pair |-> 11, actions |-> RowD]>>]

TablesEmpty == [hard_hands |-> <<>>, soft_hands |-> <<>>, pair_hands |-> <<>>]

Json(id, name, rules, tables, well_formed) ==
    [well_formed |-> well_formed, id |-> id, name |-> name, rules |-> rules,
     tables |-> tables]

Entry(stem, ext, is_file, readable, json) ==
    [stem |-> stem, ext |-> ext, is_file |-> is_file, readable |-> readable,
     json |-> json]

\* the entries a strategies directory is drawn from
EntryPool ==
    { Entry("random-strategy", "json", TRUE, TRUE,
            Json("827396a6", "Random", Rules(2, TRUE, TRUE, TRUE, "Not Allowed"),
                 TablesOdd, TRUE)),
      Entry("default-strategy", "json", TRUE, TRUE,
            Json(NilUuid, "Basic Strategy", Rules(1, TRUE, TRUE, TRUE, "Not Allowed"),
                 TablesBasic, TRUE)),
      Entry("copy-of-default", "json", TRUE, TRUE,
            Json("5c1e0b77", "Copy", Rules(1, TRUE, TRUE, TRUE, "Not Allowed"),
                 TablesEmpty, TRUE)),
      Entry("broken", "json", TRUE, TRUE,
            Json("0d9f2c11", "Broken", Rules(1, TRUE, TRUE, TRUE, "Sometimes"),
                 TablesBasic, TRUE)),
      Entry("notes", "txt", TRUE, TRUE,
            Json("77aa01f3", "Notes", Rules(1, TRUE, TRUE, TRUE, "Not Allowed"),
                 TablesBasic, TRUE)) }

\* the listings of resources/strategies that are drawn: <<FALSE, {}>> is a
\* directory that cannot be read
Directories ==
    { <<TRUE, d>> : d \in { e \in SUBSET EntryPool : Cardinality(e) <= MaxFiles } }
    \cup { <<FALSE, {}>> }

\* all orders in which a HashMap with these keys may iterate
Orders(keys) ==
    { o \in [1..Cardinality(keys) -> keys] :
        \A i, j \in 1..Cardinality(keys) : i # j => o[i] # o[j] }

\* ------------------------------------------------ StrategyCalculatorScreen
FallbackKey == "random-strategy"

\* ADJUSTABLE_OPTIONS, indexed from 0
ADJUSTABLE_OPTIONS ==
    [i \in 0..4 |->
        CASE i = 0 -> "NumberOfDecks"
          [] i = 1 -> "Soft17DealerAction"
          [] i = 2 -> "AllowDoubleAfterSplit"
          [] i = 3 -> "AllowSurrender"
          [] i = 4 -> "DealerPeak"]

\* the first file that fails to load aborts the loop and leaves no entry
LoadCache_aborts(dir) ==
    LET files == { e \in dir[2] : e.is_file /\ e.ext = "json" }
        keys == IF \E e \in files : ~from_file(e).ok THEN {}
                ELSE { e.stem : e \in files }
    IN  [k \in keys |-> from_file(CHOOSE e \in files : e.stem = k).value]

\* the loop of StrategyCalculatorScreen::new over the directory entries
LoadCache(dir) ==
    LET loaded == { e \in dir[2] : e.is_file /\ e.ext = "json" /\ from_file(e).ok }
        keys == { e.stem : e \in loaded }
    IN  [k \in keys |-> from_file(CHOOSE e \in loaded : e.stem = k).value]

RuleMatch(strategy, decks, s17, das, peak, surr) ==
    /\ strategy.rules.decks = decks
    /\ strategy.rules.dealer_stands_on_soft_17 = s17
    /\ strategy.rules.double_after_split = das
    /\ strategy.rules.dealer_peak = peak
    /\ strategy.rules.surrender_allowed = surr

RECURSIVE FirstMatch(_, _, _, _, _, _, _, _)
FirstMatch(cache, order, i, decks, s17, das, peak, surr) ==
    IF i > Len(order) THEN None
    ELSE IF RuleMatch(cache[order[i]], decks, s17, das, peak, surr)
         THEN Some(order[i])
         ELSE FirstMatch(cache, order, i + 1, decks, s17, das, peak, surr)

\* a scan that compares only the deck count
find_exact_matching_strategy_decks_only(cache, order, decks, s17, das, peak, surr) ==
    LET hits == { i \in 1..Len(order) : cache[order[i]].rules.decks = decks }
    IN  IF hits = {} THEN None
        ELSE Some(order[CHOOSE i \in hits : \A j \in hits : i <= j])

\* StrategyCalculatorScreen::find_exact_matching_strategy (decks: u8)
find_exact_matching_strategy(cache, order, decks, s17, das, peak, surr) ==
    FirstMatch(cache, order, 1, decks, s17, das, peak, surr)

\* StrategyCalculatorScreen::find_matching_strategy (decks: i8, compared as u8)
find_matching_strategy(cache, order, decks, s17, das, peak, surr) ==
    LET name == FirstMatch(cache, order, 1, AsU8(decks), s17, das, peak, surr)
    IN  IF name = None THEN None ELSE Some(<<name[1], cache[name[1]]>>)

\* without an exact match the constructor takes the fallback document, as
\* an adjustment does
StrategyCalculatorScreen_new_with_fallback(dir, order) ==
    LET strategy_cache == LoadCache(dir)
        found == find_matching_strategy(strategy_cache, order, 1, TRUE, TRUE, TRUE,
                                        "NotAllowed")
        fallback == found = None /\ FallbackKey \in DOMAIN strategy_cache
    IN  [active_menu_index |-> 0,
         number_of_decks |-> 1,
         dealer_stands_on_soft_17 |-> TRUE,
         allow_double_after_split |-> TRUE,
         surrender_rule |-> "NotAllowed",
         dealer_peak |-> TRUE,
         strategy |-> IF fallback THEN strategy_cache[FallbackKey]
                      ELSE IF found = None THEN BlackjackStrategy_new ELSE found[1][2],
         strategy_cache |-> strategy_cache,
         active_strategy_name |-> IF fallback THEN FallbackKey
                                  ELSE IF found = None THEN "Default" ELSE found[1][1],
         kind |-> "StrategyCalculator",
         iteration_order |-> order]

\* StrategyCalculatorScreen::new
StrategyCalculatorScreen_new(dir, order) ==
    LET strategy_cache == LoadCache(dir)
        found == find_matching_strategy(strategy_cache, order, 1, TRUE, TRUE, TRUE,
                                        "NotAllowed")
    IN  [active_menu_index |-> 0,
         number_of_decks |-> 1,
         dealer_stands_on_soft_17 |-> TRUE,
         allow_double_after_split |-> TRUE,
         surrender_rule |-> "NotAllowed",
         dealer_peak |-> TRUE,
         strategy |-> IF found = None THEN BlackjackStrategy_new ELSE found[1][2],
         strategy_cache |-> strategy_cache,
         active_strategy_name |-> IF found = None THEN "Default" ELSE found[1][1],
         kind |-> "StrategyCalculator",
         iteration_order |-> order]

\* StrategyCalculatorScreen::create_strategy_key (decks: u8)
create_strategy_key(decks, s17, das, peak, surr) ==
    "decks" \o ToString(decks)
    \o "_s17" \o (IF s17 THEN "y" ELSE "n")
    \o "_das" \o (IF das THEN "y" ELSE "n")
    \o "_peak" \o (IF peak THEN "y" ELSE "n")
    \o "_surr" \o SurrenderRule_to_string(surr)

\* StrategyCalculatorScreen::switch_strategy
switch_strategy(s, strategy_name) ==
    IF strategy_name \in DOMAIN s.strategy_cache
    THEN [s EXCEPT !.strategy = s.strategy_cache[strategy_name],
                   !.active_strategy_name = strategy_name]
    ELSE s

\* the fallback is taken even when an exact match exists
update_strategy_fallback_first(s) ==
    IF FallbackKey \in DOMAIN s.strategy_cache
    THEN switch_strategy(s, FallbackKey)
    ELSE LET m == find_exact_matching_strategy(s.strategy_cache, s.iteration_order,
                      AsU8(s.number_of_decks), s.dealer_stands_on_soft_17,
                      s.allow_double_after_split, s.dealer_peak, s.surrender_rule)
         IN  IF m # None THEN switch_strategy(s, m[1]) ELSE s

\* StrategyCalculatorScreen::update_strategy_based_on_settings
update_strategy_based_on_settings(s) ==
    LET matching_strategy ==
            find_exact_matching_strategy(s.strategy_cache, s.iteration_order,
                AsU8(s.number_of_decks), s.dealer_stands_on_soft_17,
                s.allow_double_after_split, s.dealer_peak, s.surrender_rule)
    IN  IF matching_strategy # None
        THEN switch_strategy(s, matching_strategy[1])
        ELSE IF FallbackKey \in DOMAIN s.strategy_cache
             THEN switch_strategy(s, FallbackKey)
             ELSE s

\* ---------------------------------------------------------- input events
KeyCodes == {"q", "m", "j", "k", "l", "h", "Down", "Up", "Right", "Left", "Enter", "x"}

KeyEvent(kind, code) == [type |-> "Key", kind |-> kind, code |-> code]

\* what event::read() can give: key presses, some releases and repeats, an
\* event that is no key event (a resize), or an I/O error
Events ==
    { KeyEvent("Press", c) : c \in KeyCodes }
    \cup { KeyEvent("Release", c) : c \in {"q", "l", "Enter"} }
    \cup { KeyEvent("Repeat", c) : c \in {"l"} }
    \cup { [type |-> "Resize", kind |-> "none", code |-> "none"],
           [type |-> "Err", kind |-> "none", code |-> "none"] }

NoEvent == [type |-> "none", kind |-> "none", code |-> "none"]

\* ------------------------------------------------------- MenuNavigation
\* the upper clamp is missing
increment_menu_index_unclamped(index, length, increment) ==
    IF increment < 0 /\ index <= 0 THEN index
    ELSE AsI8(index + increment)

\* MenuNavigation::increment_menu_index, on get_menu_index / get_menu_length
increment_menu_index(index, length, increment) ==
    IF increment < 0 /\ index <= 0 THEN index
    ELSE IF increment > 0 /\ index >= AsI8(length - 1) THEN index
    ELSE AsI8(index + increment)

\* ----------------------------------------------------------- MenuScreen
\* MENU_ITEMS, indexed from 0
MENU_ITEMS == [i \in 0..1 |-> IF i = 0 THEN "StrategyCalculator" ELSE "AboutUs"]

MenuScreen_new == [kind |-> "Menu", active_menu_index |-> 0]

\* MenuScreen::return_navigation_target; "panic" when the unwrap fails
return_navigation_target(s) ==
    IF s.active_menu_index \notin DOMAIN MENU_ITEMS THEN "panic"
    ELSE IF MENU_ITEMS[s.active_menu_index] = "StrategyCalculator"
         THEN "NavToStrategyCalculator"
         ELSE "NavToAboutUs"

Step(state, response) == [state |-> state, response |-> response]

\* the kind of the key event is not looked at: a release acts like a press
MenuScreen_update_on_release(s, ev) ==
    IF ev.type = "Err" THEN Step(s, "Err")
    ELSE IF ev.type # "Key" THEN Step(s, "Refresh")
    ELSE IF ev.code = "q" THEN Step(s, "Exit")
    ELSE IF ev.code \in {"j", "Down"}
         THEN Step([s EXCEPT !.active_menu_index =
                        increment_menu_index(@, Cardinality(DOMAIN MENU_ITEMS), 1)], "Refresh")
    ELSE IF ev.code \in {"k", "Up"}
         THEN Step([s EXCEPT !.active_menu_index =
                        increment_menu_index(@, Cardinality(DOMAIN MENU_ITEMS), -1)], "Refresh")
    ELSE IF ev.code = "Enter" THEN Step(s, return_navigation_target(s))
    ELSE Step(s, "Refresh")

\* impl Model for MenuScreen: update
MenuScreen_update(s, ev) ==
    IF ev.type = "Err" THEN Step(s, "Err")
    ELSE IF ev.type # "Key" THEN Step(s, "Refresh")
    ELSE IF ev.kind = "Release" THEN Step(s, "Refresh")
    ELSE IF ev.code = "q" THEN Step(s, "Exit")
    ELSE IF ev.code \in {"j", "Down"}
         THEN Step([s EXCEPT !.active_menu_index =
                        increment_menu_index(@, Cardinality(DOMAIN MENU_ITEMS), 1)], "Refresh")
    ELSE IF ev.code \in {"k", "Up"}
         THEN Step([s EXCEPT !.active_menu_index =
                        increment_menu_index(@, Cardinality(DOMAIN MENU_ITEMS), -1)], "Refresh")
    ELSE IF ev.code = "Enter" THEN Step(s, return_navigation_target(s))
    ELSE Step(s, "Refresh")

\* -------------------------------------------------------- AboutUsScreen
AboutUsScreen_new == [kind |-> "AboutUs", scroll_offset |-> 0, scroll_necessary |-> FALSE]

\* 'q' handled like 'm': back to the menu instead of Exit
AboutUsScreen_update_q_navigates(s, ev) ==
    IF ev.type = "Err" THEN Step(s, "Err")
    ELSE IF ev.type # "Key" THEN Step(s, "Refresh")
    ELSE IF ev.kind = "Release" THEN Step(s, "Refresh")
    ELSE IF ev.code \in {"q", "m"} THEN Step(s, "NavToMainMenu")
    ELSE IF ev.code \in {"Up", "k"}
         THEN Step(IF s.scroll_offset > 0
                   THEN IF s.scroll_offset = 2
                        THEN [s EXCEPT !.scroll_offset = @ - 2]
                        ELSE [s EXCEPT !.scroll_offset = @ - 1]
                   ELSE s, "Refresh")
    ELSE IF ev.code \in {"Down", "j"}
         THEN Step(IF s.scroll_necessary
                   THEN IF s.scroll_offset = 0
                        THEN [s EXCEPT !.scroll_offset = @ + 2]
                        ELSE [s EXCEPT !.scroll_offset = @ + 1]
                   ELSE s, "Refresh")
    ELSE Step(s, "Refresh")

\* impl Model for AboutUsScreen: update
AboutUsScreen_update(s, ev) ==
    IF ev.type = "Err" THEN Step(s, "Err")
    ELSE IF ev.type # "Key" THEN Step(s, "Refresh")
    ELSE IF ev.kind = "Release" THEN Step(s, "Refresh")
    ELSE IF ev.code = "q" THEN Step(s, "Exit")
    ELSE IF ev.code = "m" THEN Step(s, "NavToMainMenu")
    ELSE IF ev.code \in {"Up", "k"}
         THEN Step(IF s.scroll_offset > 0
                   THEN IF s.scroll_offset = 2
                        THEN [s EXCEPT !.scroll_offset = @ - 2]
                        ELSE [s EXCEPT !.scroll_offset = @ - 1]
                   ELSE s, "Refresh")
    ELSE IF ev.code \in {"Down", "j"}
         THEN Step(IF s.scroll_necessary
                   THEN IF s.scroll_offset = 0
                        THEN [s EXCEPT !.scroll_offset = @ + 2]
                        ELSE [s EXCEPT !.scroll_offset = @ + 1]
                   ELSE s, "Refresh")
    ELSE Step(s, "Refresh")

\* text_lines.len().saturating_sub(content_area.height as usize - 2); with a
\* height below 2 the subtraction wraps (a build without overflow checks) to
\* a value above every line count
max_scroll(height) ==
    IF height < 2 THEN 0
    ELSE IF TextLines > height - 2 THEN TextLines - (height - 2) ELSE 0

\* the offset is not brought back under max_scroll
AboutUsScreen_ui_unclamped(s, height) ==
    [s EXCEPT !.scroll_necessary = IF TextLines >= height THEN TRUE ELSE @]

\* impl Model for AboutUsScreen: ui, for a content area of this height
AboutUsScreen_ui(s, height) ==
    [s EXCEPT !.scroll_offset = IF @ > max_scroll(height) THEN max_scroll(height) ELSE @,
              !.scroll_necessary = IF TextLines >= height THEN TRUE ELSE @]

\* content_area.height as usize - 2 overflows
AboutUsScreen_ui_overflows(height) == height < 2

\* ------------------------------ StrategyCalculatorScreen: the adjustments
\* hm_one of increment_current_menu_item
hm_one ==
    [i \in 1..3 |-> CASE i = 1 -> "NotAllowed"
                      [] i = 2 -> "AnyUpcard"
                      [] i = 3 -> "Dealer2Through10"]

\* hm_two of increment_current_menu_item
hm_two == [r \in SurrenderRule |-> CHOOSE i \in 1..3 : hm_one[i] = r]

\* the unwraps of increment_current_menu_item that find None
increment_current_menu_item_panics(s, increment) ==
    \/ s.active_menu_index \notin DOMAIN ADJUSTABLE_OPTIONS
    \/ /\ ADJUSTABLE_OPTIONS[s.active_menu_index] = "AllowSurrender"
       /\ LET curr_idx == hm_two[s.surrender_rule]
          IN  /\ ~(curr_idx = 1 /\ increment < 0)
              /\ ~(curr_idx = 3 /\ increment > 0)
              /\ AsI8(curr_idx + increment) \notin DOMAIN hm_one

\* the guards on the range are missing
NumberOfDecks_arm_unguarded(s, increment) ==
    [s EXCEPT !.number_of_decks = AsI8(@ + increment)]

\* increment_current_menu_item, arm AdjustableOption::NumberOfDecks
NumberOfDecks_arm(s, increment) ==
    IF increment < 0 /\ s.number_of_decks <= 1 THEN s
    ELSE IF increment > 0 /\ s.number_of_decks >= 6 THEN s
    ELSE [s EXCEPT !.number_of_decks = AsI8(@ + increment)]

\* the boolean follows the sign of the increment instead of flipping
Soft17DealerAction_arm_by_sign(s, increment) ==
    [s EXCEPT !.dealer_stands_on_soft_17 = (increment > 0)]

\* increment_current_menu_item, arm AdjustableOption::Soft17DealerAction
Soft17DealerAction_arm(s, increment) ==
    [s EXCEPT !.dealer_stands_on_soft_17 = ~@]

\* the arm also flips the dealer-peek option
AllowDoubleAfterSplit_arm_with_peak(s, increment) ==
    [s EXCEPT !.allow_double_after_split = ~@, !.dealer_peak = ~@]

\* increment_current_menu_item, arm AdjustableOption::AllowDoubleAfterSplit
AllowDoubleAfterSplit_arm(s, increment) ==
    [s EXCEPT !.allow_double_after_split = ~@]

\* the rule stops at both ends instead of wrapping
AllowSurrender_arm_no_wrap(s, increment) ==
    LET curr_idx == hm_two[s.surrender_rule]
    IN  IF AsI8(curr_idx + increment) \in DOMAIN hm_one
        THEN [s EXCEPT !.surrender_rule = hm_one[AsI8(curr_idx + increment)]]
        ELSE s

\* increment_current_menu_item, arm AdjustableOption::AllowSurrender
AllowSurrender_arm(s, increment) ==
    LET curr_idx == hm_two[s.surrender_rule]
    IN  IF curr_idx = 1 /\ increment < 0
        THEN [s EXCEPT !.surrender_rule = hm_one[3]]
        ELSE IF curr_idx = 3 /\ increment > 0
        THEN [s EXCEPT !.surrender_rule = hm_one[1]]
        ELSE [s EXCEPT !.surrender_rule = hm_one[AsI8(curr_idx + increment)]]

\* increment_current_menu_item, arm AdjustableOption::DealerPeak
DealerPeak_arm(s, increment) ==
    [s EXCEPT !.dealer_peak = ~@]

\* StrategyCalculatorScreen::increment_current_menu_item
increment_current_menu_item(s, increment) ==
    LET menu_item == ADJUSTABLE_OPTIONS[s.active_menu_index]
    IN  CASE menu_item = "NumberOfDecks" -> NumberOfDecks_arm(s, increment)
          [] menu_item = "Soft17DealerAction" -> Soft17DealerAction_arm(s, increment)
          [] menu_item = "AllowDoubleAfterSplit" -> AllowDoubleAfterSplit_arm(s, increment)
          [] menu_item = "AllowSurrender" -> AllowSurrender_arm(s, increment)
          [] menu_item = "DealerPeak" -> DealerPeak_arm(s, increment)

\* the Right / Left arms of update: adjust, then resolve the strategy again
Adjust(s, increment) ==
    IF increment_current_menu_item_panics(s, increment)
    THEN Step(s, "panic")
    ELSE Step(update_strategy_based_on_settings(increment_current_menu_item(s, increment)),
              "Refresh")

\* impl Model for StrategyCalculatorScreen: update
StrategyCalculatorScreen_update(s, ev) ==
    IF ev.type = "Err" THEN Step(s, "Err")
    ELSE IF ev.type # "Key" THEN Step(s, "Refresh")
    ELSE IF ev.kind = "Release" THEN Step(s, "Refresh")
    ELSE IF ev.code = "q" THEN Step(s, "Exit")
    ELSE IF ev.code = "m" THEN Step(s, "NavToMainMenu")
    ELSE IF ev.code \in {"j", "Down"}
         THEN Step([s EXCEPT !.active_menu_index =
                        increment_menu_index(@, Cardinality(DOMAIN ADJUSTABLE_OPTIONS), 1)],
                   "Refresh")
    ELSE IF ev.code \in {"k", "Up"}
         THEN Step([s EXCEPT !.active_menu_index =
                        increment_menu_index(@, Cardinality(DOMAIN ADJUSTABLE_OPTIONS), -1)],
                   "Refresh")
    ELSE IF ev.code \in {"l", "Right"} THEN Adjust(s, 1)
    ELSE IF ev.code \in {"h", "Left"} THEN Adjust(s, -1)
    ELSE Step(s, "Refresh")

\* render_soft_hands_table: row.total - 11 on a u8 overflows for some row
render_soft_hands_table_overflows(s) ==
    \E i \in 1..Len(s.strategy.tables.soft_hands) :
        s.strategy.tables.soft_hands[i].total < 11

\* ------------------------------------------------------------- run_app
\* impl Model: update, by the kind of the boxed screen
Update(s, ev) ==
    CASE s.kind = "Menu" -> MenuScreen_update(s, ev)
      [] s.kind = "AboutUs" -> AboutUsScreen_update(s, ev)
      [] s.kind = "StrategyCalculator" -> StrategyCalculatorScreen_update(s, ev)

\* a match with an arm for NavToStrategyCalculator
run_app_match_with_calculator(s, resp) ==
    CASE resp = "NavToMainMenu" -> MenuScreen_new
      [] resp = "NavToAboutUs" -> AboutUsScreen_new
      [] resp = "NavToStrategyCalculator" ->
            StrategyCalculatorScreen_new(<<FALSE, {}>>, <<>>)
      [] OTHER -> s

\* the match of run_app on the response: the screen the loop goes on with
run_app_match(s, resp) ==
    CASE resp = "NavToMainMenu" -> MenuScreen_new
      [] resp = "NavToAboutUs" -> AboutUsScreen_new
      [] OTHER -> s

VARIABLES
    mode,       \* "run_app", "calculator", "lookup", "codec", "new", "parse" or "key"
    pc,         \* "draw", "update", "returned", "panicked", or the step of a mode
    screen,     \* the boxed screen of run_app
    event,      \* the event the last update read, since the last draw
    response,   \* the response of the last update, since the last draw
    prev,       \* the screen as the last update found it, since the last draw
    result,     \* what run_app returned: "none", "Ok" or "Err"
    lookup,     \* the inputs and the result of a strategy lookup
    codec,      \* the inputs and the results of the PlayerAction conversions
    strategies_dir, \* the listing of resources/strategies a construction reads
    parse,      \* a source text and what from_json made of it
    strategy_key \* a rule set and the key create_strategy_key made of it

vars == <<mode, pc, screen, event, response, prev, result, lookup, codec, strategies_dir,
          parse, strategy_key>>

NoLookup == [strategy |-> BlackjackStrategy_new, category |-> "none", total |-> 0,
             dealer_upcard |-> 0, result |-> None]

NoScreen == [kind |-> "none"]

NoCodec == [action |-> "none", code |-> "none", encoded |-> None,
            round_trip |-> None, decoded |-> None]

NoDirectory == <<FALSE, {}>>

NoKey == [rules |-> "none", result |-> None]

NoParse == [json |-> "none", rule |-> "none", result |-> None, round_trip |-> None]

\* run_app line 41: the loop starts on the menu
InitRunApp ==
    /\ mode = "run_app"
    /\ pc = "draw"
    /\ screen = MenuScreen_new
    /\ event = NoEvent
    /\ response = "none"
    /\ prev = NoScreen
    /\ result = "none"
    /\ lookup = NoLookup
    /\ codec = NoCodec
    /\ strategies_dir = NoDirectory
    /\ parse = NoParse
    /\ strategy_key = NoKey

\* the loop holding a newly constructed calculator screen
InitCalculator ==
    /\ mode = "calculator"
    /\ pc = "draw"
    /\ \E dir \in Directories :
         \E order \in Orders(DOMAIN LoadCache(dir)) :
            screen = StrategyCalculatorScreen_new(dir, order)
    /\ event = NoEvent
    /\ response = "none"
    /\ prev = NoScreen
    /\ result = "none"
    /\ lookup = NoLookup
    /\ codec = NoCodec
    /\ strategies_dir = NoDirectory
    /\ parse = NoParse
    /\ strategy_key = NoKey

\* terminal.draw(|f| screen.ui(f))? succeeds
Draw ==
    /\ pc = "draw"
    /\ pc' = "update"
    /\ \/ /\ screen.kind = "Menu"
          /\ screen' = screen
       \/ /\ screen.kind = "AboutUs"
          /\ \E height \in 0..MaxHeight :
               /\ ~AboutUsScreen_ui_overflows(height)
               /\ screen' = AboutUsScreen_ui(screen, height)
       \/ /\ screen.kind = "StrategyCalculator"
          /\ ~render_soft_hands_table_overflows(screen)
          /\ screen' = screen
    /\ event' = NoEvent
    /\ response' = "none"
    /\ prev' = NoScreen
    /\ UNCHANGED <<mode, result, lookup, codec, strategies_dir, parse, strategy_key>>

\* an arithmetic overflow inside ui: a panic with overflow checks, a wrapped
\* value without them
DrawOverflows ==
    /\ pc = "draw"
    /\ \/ /\ screen.kind = "AboutUs"
          /\ \E height \in 0..MaxHeight :
               /\ AboutUsScreen_ui_overflows(height)
               /\ \/ pc' = "panicked" /\ screen' = screen
                  \/ pc' = "update" /\ screen' = AboutUsScreen_ui(screen, height)
       \/ /\ screen.kind = "StrategyCalculator"
          /\ render_soft_hands_table_overflows(screen)
          /\ screen' = screen
          /\ pc' \in {"panicked", "update"}
    /\ event' = NoEvent
    /\ response' = "none"
    /\ prev' = NoScreen
    /\ UNCHANGED <<mode, result, lookup, codec, strategies_dir, parse, strategy_key>>

\* terminal.draw(..)? returns the error of the backend
DrawFails ==
    /\ pc = "draw"
    /\ pc' = "returned"
    /\ result' = "Err"
    /\ UNCHANGED <<mode, screen, event, response, prev, lookup, codec, strategies_dir, parse, strategy_key>>

\* the error of update is propagated as with `?`: run_app returns it
UpdateAndMatch_propagates ==
    /\ pc = "update"
    /\ \E ev \in Events :
         LET step == Update(screen, ev)
         IN  /\ event' = ev
             /\ response' = step.response
             /\ prev' = screen
             /\ IF step.response = "panic"
                THEN pc' = "panicked" /\ screen' = step.state /\ result' = result
                ELSE IF step.response = "Exit"
                THEN pc' = "returned" /\ screen' = step.state /\ result' = "Ok"
                ELSE IF step.response = "Err"
                THEN pc' = "returned" /\ screen' = step.state /\ result' = "Err"
                ELSE /\ pc' = "draw"
                     /\ screen' = run_app_match(step.state, step.response)
                     /\ result' = result
    /\ UNCHANGED <<mode, lookup, codec, strategies_dir, parse, strategy_key>>

\* the inner loop: screen.update() and the match on its response
UpdateAndMatch ==
    /\ pc = "update"
    /\ \E ev \in Events :
         LET step == Update(screen, ev)
         IN  /\ event' = ev
             /\ response' = step.response
             /\ prev' = screen
             /\ IF step.response = "panic"
                THEN pc' = "panicked" /\ screen' = step.state /\ result' = result
                ELSE IF step.response = "Exit"
                THEN pc' = "returned" /\ screen' = step.state /\ result' = "Ok"
                ELSE /\ pc' = "draw"
                     /\ screen' = run_app_match(step.state, step.response)
                     /\ result' = result
    /\ UNCHANGED <<mode, lookup, codec, strategies_dir, parse, strategy_key>>

UpdateMenu ==
    /\ screen.kind = "Menu"
    /\ UpdateAndMatch

UpdateAboutUs ==
    /\ screen.kind = "AboutUs"
    /\ UpdateAndMatch

UpdateStrategyCalculator ==
    /\ screen.kind = "StrategyCalculator"
    /\ UpdateAndMatch

NextRunApp == Draw \/ DrawOverflows \/ DrawFails \/ UpdateMenu \/ UpdateAboutUs

Spec == InitRunApp /\ [][NextRunApp]_vars

NextCalculator == NextRunApp \/ UpdateStrategyCalculator

SpecCalculator == InitCalculator /\ [][NextCalculator]_vars

\* the loop on any of the three screens: run_app as main starts it, or the
\* same loop holding a newly constructed calculator screen
InitDriver == InitRunApp \/ InitCalculator

SpecDriver == InitDriver /\ [][NextCalculator]_vars

\* ------------------------------------- StrategyCalculatorScreen::new alone
\* entries besides the pool's: a subdirectory whose name ends in .json and a
\* .json file that cannot be read
ListingPool ==
    EntryPool \cup
    { Entry("archive", "json", FALSE, TRUE,
            Json("3b1d55e0", "Archive", Rules(1, TRUE, TRUE, TRUE, "Not Allowed"),
                 TablesBasic, TRUE)),
      Entry("locked", "json", TRUE, FALSE,
            Json("9e40a7c2", "Locked", Rules(1, TRUE, TRUE, TRUE, "Not Allowed"),
                 TablesBasic, TRUE)),
      Entry("truncated", "json", TRUE, TRUE,
            Json("41c7d2aa", "Truncated", Rules(4, TRUE, TRUE, TRUE, "Any"),
                 TablesBasic, FALSE)) }

\* the listings a construction is drawn on: whether read_dir succeeds, the
\* entries, and the order in which read_dir yields them
Listings ==
    UNION { { <<TRUE, d, o>> : o \in Orders(d) } :
              d \in { e \in SUBSET ListingPool : Cardinality(e) <= MaxFiles + 1 } }
    \cup { <<FALSE, {}, <<>>>> }

InitNew ==
    /\ mode = "new"
    /\ pc = "new"
    /\ screen = NoScreen
    /\ event = NoEvent
    /\ response = "none"
    /\ prev = NoScreen
    /\ result = "none"
    /\ lookup = NoLookup
    /\ codec = NoCodec
    /\ strategies_dir \in Listings
    /\ parse = NoParse
    /\ strategy_key = NoKey

\* StrategyCalculatorScreen::new() on the listing
Construct ==
    /\ pc = "new"
    /\ pc' = "constructed"
    /\ \E order \in Orders(DOMAIN LoadCache(strategies_dir)) :
         screen' = StrategyCalculatorScreen_new(strategies_dir, order)
    /\ UNCHANGED <<mode, event, response, prev, result, lookup, codec, strategies_dir, parse, strategy_key>>

SpecNew == InitNew /\ [][Construct]_vars

\* ------------------------------------------------- lookups on a strategy
\* the strategies a lookup is drawn on: what the pool's entries load to, and
\* the built-in default
LookupStrategies ==
    { from_file(e).value : e \in { x \in EntryPool : from_file(x).ok } }
    \cup { BlackjackStrategy_new }

InitLookup ==
    /\ mode = "lookup"
    /\ pc = "lookup"
    /\ screen = NoScreen
    /\ event = NoEvent
    /\ response = "none"
    /\ prev = NoScreen
    /\ result = "none"
    /\ codec = NoCodec
    /\ strategies_dir = NoDirectory
    /\ parse = NoParse
    /\ strategy_key = NoKey
    /\ \E strategy \in LookupStrategies, category \in {"Hard", "Soft", "Pair"},
          total \in 0..MaxTotal, dealer_upcard \in 0..MaxUpcard :
         lookup = [strategy |-> strategy, category |-> category, total |-> total,
                   dealer_upcard |-> dealer_upcard, result |-> None]

\* one call of get_hard_hand_action, get_soft_hand_action or get_pair_action
Lookup ==
    /\ pc = "lookup"
    /\ pc' = "looked"
    /\ lookup' = [lookup EXCEPT !.result = Some(
          CASE lookup.category = "Hard" ->
                 get_hard_hand_action(lookup.strategy, lookup.total, lookup.dealer_upcard)
            [] lookup.category = "Soft" ->
                 get_soft_hand_action(lookup.strategy, lookup.total, lookup.dealer_upcard)
            [] lookup.category = "Pair" ->
                 get_pair_action(lookup.strategy, lookup.total, lookup.dealer_upcard))]
    /\ UNCHANGED <<mode, screen, event, response, prev, result, codec, strategies_dir, parse, strategy_key>>

SpecLookup == InitLookup /\ [][Lookup]_vars

\* ------------------------------------------- conversions of PlayerAction
\* the strings a decoding is drawn on: the eight codes, and strings that
\* differ from a code in case, length or surrounding blanks
CodeStrings ==
    {"H", "S", "D", "Ds", "P", "Su", "Rs", "Ph",
     "", "h", "s", "DS", "ds", "Sur", "R", " H", "Hit", "X"}

InitCodec ==
    /\ mode = "codec"
    /\ pc = "convert"
    /\ screen = NoScreen
    /\ event = NoEvent
    /\ response = "none"
    /\ prev = NoScreen
    /\ result = "none"
    /\ lookup = NoLookup
    /\ strategies_dir = NoDirectory
    /\ parse = NoParse
    /\ strategy_key = NoKey
    /\ \E action \in PlayerAction, code \in CodeStrings :
         codec = [action |-> action, code |-> code, encoded |-> None,
                  round_trip |-> None, decoded |-> None]

\* to_code_string on the action, from_code_string on what it gave and on
\* the drawn string
Convert ==
    /\ pc = "convert"
    /\ pc' = "converted"
    /\ codec' = [codec EXCEPT
                   !.encoded = Some(to_code_string(codec.action)),
                   !.round_trip = Some(from_code_string(to_code_string(codec.action))),
                   !.decoded = Some(from_code_string(codec.code))]
    /\ UNCHANGED <<mode, screen, event, response, prev, result, lookup, strategies_dir, parse, strategy_key>>

SpecCodec == InitCodec /\ [][Convert]_vars

\* ------------------------------------------------ from_json on a source
\* the values of the id field: missing, the nil identifier, some identifier
JsonIds == {"absent", NilUuid, "827396a6-eaa0-4dc3-986b-926fa0fcf798"}

\* the values of rules.surrender_allowed: the three literals and strings
\* that differ from them in case, blanks or wording
SurrenderLiterals ==
    {"Not Allowed", "Any Dealer Upcard", "Dealer 2 through 10",
     "not allowed", "NotAllowed", "Any", "Dealer 2 through 10 ", "Sometimes", ""}

\* the source texts a parse is drawn on
JsonTexts ==
    { Json(id, "Test Strategy", Rules(1, TRUE, TRUE, TRUE, literal), tables, well_formed) :
        id \in JsonIds, literal \in SurrenderLiterals,
        tables \in {TablesEmpty, TablesOdd}, well_formed \in BOOLEAN }

InitParse ==
    /\ mode = "parse"
    /\ pc = "parse"
    /\ screen = NoScreen
    /\ event = NoEvent
    /\ response = "none"
    /\ prev = NoScreen
    /\ result = "none"
    /\ lookup = NoLookup
    /\ codec = NoCodec
    /\ strategies_dir = NoDirectory
    /\ strategy_key = NoKey
    /\ \E json \in JsonTexts, rule \in SurrenderRule :
         parse = [json |-> json, rule |-> rule, result |-> None, round_trip |-> None]

\* BlackjackStrategy::from_json on the text; SurrenderRule::to_string on
\* the rule and SurrenderRule::from_string on what it gave
Parse ==
    /\ pc = "parse"
    /\ pc' = "parsed"
    /\ parse' = [parse EXCEPT
                   !.result = Some(from_json(parse.json)),
                   !.round_trip = Some(SurrenderRule_from_string(
                                          SurrenderRule_to_string(parse.rule)))]
    /\ UNCHANGED <<mode, screen, event, response, prev, result, lookup, codec,
                   strategies_dir, strategy_key>>

SpecParse == InitParse /\ [][Parse]_vars

\* ------------------------------------------------- create_strategy_key
MaxDecks == 8

InitKey ==
    /\ mode = "key"
    /\ pc = "key"
    /\ screen = NoScreen
    /\ event = NoEvent
    /\ response = "none"
    /\ prev = NoScreen
    /\ result = "none"
    /\ lookup = NoLookup
    /\ codec = NoCodec
    /\ strategies_dir = NoDirectory
    /\ parse = NoParse
    /\ \E decks \in 0..MaxDecks, s17 \in BOOLEAN, das \in BOOLEAN, peak \in BOOLEAN,
          surr \in SurrenderRule :
         strategy_key = [rules |-> Rules(decks, s17, das, peak, surr), result |-> None]

\* one call of create_strategy_key
CreateKey ==
    /\ pc = "key"
    /\ pc' = "keyed"
    /\ strategy_key' = [strategy_key EXCEPT !.result = Some(
          create_strategy_key(strategy_key.rules.decks,
                              strategy_key.rules.dealer_stands_on_soft_17,
                              strategy_key.rules.double_after_split,
                              strategy_key.rules.dealer_peak,
                              strategy_key.rules.surrender_allowed))]
    /\ UNCHANGED <<mode, screen, event, response, prev, result, lookup, codec,
                   strategies_dir, parse>>

SpecKey == InitKey /\ [][CreateKey]_vars

\* =================================================================== claims
IsCalculator(s) == s.kind = "StrategyCalculator"

\* the last update took the Right (+1) or the Left (-1) arm
IsPress(ev) == ev.type = "Key" /\ ev.kind # "Release"

IsRight(ev) == IsPress(ev) /\ ev.code \in {"l", "Right"}

IsLeft(ev) == IsPress(ev) /\ ev.code \in {"h", "Left"}

IsDown(ev) == IsPress(ev) /\ ev.code \in {"j", "Down"}

IsUp(ev) == IsPress(ev) /\ ev.code \in {"k", "Up"}

\* the calculator has just handled an adjustment
Adjusted == IsCalculator(prev) /\ IsCalculator(screen) /\ (IsRight(event) \/ IsLeft(event))

Delta == IF IsRight(event) THEN 1 ELSE -1

\* the five toggles of a calculator screen as a rule set
Toggles(s) ==
    [decks |-> s.number_of_decks,
     dealer_stands_on_soft_17 |-> s.dealer_stands_on_soft_17,
     double_after_split |-> s.allow_double_after_split,
     dealer_peak |-> s.dealer_peak,
     surrender_allowed |-> s.surrender_rule]

\* the keys of the cached documents whose rule set equals the toggles
Matching(s) == { k \in DOMAIN s.strategy_cache : s.strategy_cache[k].rules = Toggles(s) }

\* C1: after every adjustment of the active option the active strategy
\* document is a cached document whose five rule fields equal the five
\* toggles, or the fallback document, whatever the cache holds.
C1_ActiveDocumentReflectsToggles ==
    Adjusted =>
        \/ \E k \in Matching(screen) : screen.strategy = screen.strategy_cache[k]
        \/ /\ FallbackKey \in DOMAIN screen.strategy_cache
           /\ screen.strategy = screen.strategy_cache[FallbackKey]

NavTarget(resp) ==
    CASE resp = "NavToMainMenu" -> "Menu"
      [] resp = "NavToAboutUs" -> "AboutUs"
      [] resp = "NavToStrategyCalculator" -> "StrategyCalculator"

\* C2: when the loop is about to draw after a navigation response, the
\* active screen is of the kind the response names; Enter on the menu's
\* 'Strategy Calculator' item makes the calculator the active screen.
C2_NavigationReachesTarget ==
    (pc = "draw" /\ response \in {"NavToMainMenu", "NavToAboutUs", "NavToStrategyCalculator"})
        => screen.kind = NavTarget(response)

\* the actions of the first row of a table whose key field equals total
FirstRowWith(rows, key, total) ==
    LET hits == { i \in 1..Len(rows) : rows[i][key] = total }
    IN  rows[CHOOSE i \in hits : \A j \in hits : i <= j].actions

HasRowWith(rows, key, total) == \E i \in 1..Len(rows) : rows[i][key] = total

\* position in a 1-based sequence of the column of a dealer upcard
Column(upcard) ==
    CASE upcard = 2 -> 1
      [] upcard = 10 -> 9
      [] upcard = 11 -> 10
      [] OTHER -> upcard - 1

\* C3: a hard-hand lookup with a total in 5..21 that has a row and a dealer
\* upcard u in 2..11 gives the action decoded from that row's actions[u-2]
\* (upcard 2 reads index 0, upcard 10 index 8, upcard 11 index 9).
C3_HardLookupReadsColumn ==
    (/\ pc = "looked"
     /\ lookup.category = "Hard"
     /\ lookup.total \in 5..21
     /\ lookup.dealer_upcard \in 2..11
     /\ HasRowWith(lookup.strategy.tables.hard_hands, "total", lookup.total))
    => LET actions == FirstRowWith(lookup.strategy.tables.hard_hands, "total", lookup.total)
           col == Column(lookup.dealer_upcard)
       IN  col <= Len(actions) => lookup.result = Some(from_code_string(actions[col]))

C3_Witness ==
    /\ pc = "looked"
    /\ lookup.category = "Hard"
    /\ lookup.total = 16
    /\ lookup.dealer_upcard = 11
    /\ HasRowWith(lookup.strategy.tables.hard_hands, "total", 16)
    /\ FirstRowWith(lookup.strategy.tables.hard_hands, "total", 16) = RowS
    /\ lookup.result = Some(Ok("Hit"))

\* C4: a soft-hand lookup with a total in 13..21 and a pair lookup with a
\* value in 2..11, for a row that exists and a dealer upcard u in 2..11,
\* give the action decoded from that row's actions[u-2].
C4_SoftAndPairLookupsReadColumn ==
    LET key == IF lookup.category = "Soft" THEN "total" ELSE "pair"
        rows == IF lookup.category = "Soft"
                THEN lookup.strategy.tables.soft_hands
                ELSE lookup.strategy.tables.pair_hands
        range == IF lookup.category = "Soft" THEN 13..21 ELSE 2..11
    IN  (/\ pc = "looked"
         /\ lookup.category \in {"Soft", "Pair"}
         /\ lookup.total \in range
         /\ lookup.dealer_upcard \in 2..11
         /\ HasRowWith(rows, key, lookup.total))
        => LET actions == FirstRowWith(rows, key, lookup.total)
               col == Column(lookup.dealer_upcard)
           IN  col <= Len(actions) => lookup.result = Some(from_code_string(actions[col]))

\* the rule sets of the cached documents are pairwise distinct
DistinctRuleSets(cache) ==
    \A k1, k2 \in DOMAIN cache : k1 # k2 => cache[k1].rules # cache[k2].rules

\* C5: the exact-match scans, asked for the current toggles, give nothing
\* when no cached document has all five rule fields equal to them and
\* otherwise a document whose five rule fields equal them; with pairwise
\* distinct rule sets the result is the same for every iteration order.
C5_ExactMatch ==
    IsCalculator(screen) =>
        LET cache == screen.strategy_cache
            t == Toggles(screen)
            name(order) == find_exact_matching_strategy(cache, order, AsU8(t.decks),
                               t.dealer_stands_on_soft_17, t.double_after_split,
                               t.dealer_peak, t.surrender_allowed)
            pair(order) == find_matching_strategy(cache, order, t.decks,
                               t.dealer_stands_on_soft_17, t.double_after_split,
                               t.dealer_peak, t.surrender_allowed)
            order == screen.iteration_order
        IN  /\ Matching(screen) = {} => name(order) = None /\ pair(order) = None
            /\ Matching(screen) # {} =>
                 /\ name(order) # None
                 /\ name(order)[1] \in Matching(screen)
                 /\ pair(order) # None
                 /\ pair(order)[1][1] \in Matching(screen)
                 /\ pair(order)[1][2] = cache[pair(order)[1][1]]
            /\ DistinctRuleSets(cache) =>
                 \A o \in Orders(DOMAIN cache) :
                    name(o) = name(order) /\ pair(o) = pair(order)

\* an adjustment on a cache of two documents with distinct rule sets, where
\* the scan passes over a document that does not match before it finds the
\* one that does
C5_Witness ==
    /\ Adjusted
    /\ Cardinality(DOMAIN screen.strategy_cache) >= 2
    /\ DistinctRuleSets(screen.strategy_cache)
    /\ Matching(screen) # {}
    /\ screen.iteration_order[1] \notin Matching(screen)
    /\ screen.active_strategy_name \in Matching(screen)

\* C6: after an adjustment the active document is an exact match when one
\* is cached, even when the fallback key is cached too; it is the fallback
\* document when nothing matches and the fallback key is cached; and when
\* neither exists no document is resolved: the active one stays as it was.
C6_ResolutionPrefersExactMatch ==
    Adjusted =>
        IF Matching(screen) # {}
        THEN /\ screen.active_strategy_name \in Matching(screen)
             /\ screen.strategy = screen.strategy_cache[screen.active_strategy_name]
        ELSE IF FallbackKey \in DOMAIN screen.strategy_cache
        THEN /\ screen.active_strategy_name = FallbackKey
             /\ screen.strategy = screen.strategy_cache[FallbackKey]
        ELSE /\ screen.active_strategy_name = prev.active_strategy_name
             /\ screen.strategy = prev.strategy

\* an adjustment after which an exact match is active although the fallback
\* key is cached and was active before
C6_Witness ==
    /\ Adjusted
    /\ FallbackKey \in DOMAIN screen.strategy_cache
    /\ prev.active_strategy_name = FallbackKey
    /\ Matching(screen) # {}
    /\ screen.active_strategy_name \in Matching(screen)
    /\ screen.active_strategy_name # FallbackKey

HasCursor(s) == s.kind \in {"Menu", "StrategyCalculator"}

MenuLength(s) == IF s.kind = "Menu" THEN 2 ELSE 5

\* C7: on the main menu (2 items) and the calculator (5 options) the cursor
\* is always in 0..length-1; an up move at the first item and a down move
\* at the last item leave it unchanged.
C7_CursorClamps ==
    /\ HasCursor(screen) => screen.active_menu_index \in 0..(MenuLength(screen) - 1)
    /\ (HasCursor(prev) /\ screen.kind = prev.kind) =>
         /\ (IsUp(event) /\ prev.active_menu_index = 0)
               => screen.active_menu_index = 0
         /\ (IsDown(event) /\ prev.active_menu_index = MenuLength(prev) - 1)
               => screen.active_menu_index = prev.active_menu_index
         /\ (IsDown(event) /\ prev.active_menu_index < MenuLength(prev) - 1)
               => screen.active_menu_index = prev.active_menu_index + 1
         /\ (IsUp(event) /\ prev.active_menu_index > 0)
               => screen.active_menu_index = prev.active_menu_index - 1

\* a down move on the calculator's last option
C7_Witness ==
    /\ IsCalculator(prev)
    /\ IsCalculator(screen)
    /\ IsDown(event)
    /\ prev.active_menu_index = 4
    /\ screen.active_menu_index = 4

\* C8: the deck count is always in 1..6; decrementing at 1 and incrementing
\* at 6 change nothing and raise no error, every other adjustment of the
\* deck count changes it by exactly the delta.
C8_DecksClamp ==
    /\ IsCalculator(screen) => screen.number_of_decks \in 1..6
    /\ (Adjusted /\ prev.active_menu_index = 0) =>
         /\ response = "Refresh"
         /\ IF (Delta < 0 /\ prev.number_of_decks = 1) \/ (Delta > 0 /\ prev.number_of_decks = 6)
            THEN screen.number_of_decks = prev.number_of_decks
            ELSE screen.number_of_decks = prev.number_of_decks + Delta

\* an increment at 6 decks
C8_Witness ==
    /\ Adjusted
    /\ prev.active_menu_index = 0
    /\ IsRight(event)
    /\ prev.number_of_decks = 6
    /\ screen.number_of_decks = 6

\* the fixed order of the surrender rules
SurrenderAfter(rule) ==
    CASE rule = "NotAllowed" -> "AnyUpcard"
      [] rule = "AnyUpcard" -> "Dealer2Through10"
      [] rule = "Dealer2Through10" -> "NotAllowed"

\* C9: an adjustment of the surrender option moves through NotAllowed,
\* AnyUpcard, Dealer2Through10 and wraps at both ends; three adjustments in
\* one direction return to the start; no adjustment panics or leaves the set.
C9_SurrenderCycles ==
    /\ IsCalculator(screen) => screen.surrender_rule \in SurrenderRule
    /\ (IsCalculator(prev) /\ prev.active_menu_index = 3 /\ (IsRight(event) \/ IsLeft(event))) =>
         /\ response = "Refresh"
         /\ IsCalculator(screen)
         /\ IsRight(event) => screen.surrender_rule = SurrenderAfter(prev.surrender_rule)
         /\ IsLeft(event) => prev.surrender_rule = SurrenderAfter(screen.surrender_rule)
         /\ LET once == increment_current_menu_item(prev, Delta)
                twice == increment_current_menu_item(once, Delta)
            IN  increment_current_menu_item(twice, Delta).surrender_rule = prev.surrender_rule

\* an increment at Dealer2Through10
C9_Witness ==
    /\ Adjusted
    /\ prev.active_menu_index = 3
    /\ IsRight(event)
    /\ prev.surrender_rule = "Dealer2Through10"
    /\ screen.surrender_rule = "NotAllowed"

\* the boolean option a cursor position addresses
BooleanAt(s, index) ==
    CASE index = 1 -> s.dealer_stands_on_soft_17
      [] index = 2 -> s.allow_double_after_split
      [] index = 4 -> s.dealer_peak

\* C10: with the cursor on soft-17, double-after-split or dealer-peek, an
\* adjustment by +1 and an adjustment by -1 both flip that boolean, so two
\* adjustments in any directions restore it.
C10_BooleansFlip ==
    (Adjusted /\ prev.active_menu_index \in {1, 2, 4}) =>
        /\ BooleanAt(screen, prev.active_menu_index) = ~BooleanAt(prev, prev.active_menu_index)
        /\ \A d1, d2 \in {-1, 1} :
             BooleanAt(increment_current_menu_item(increment_current_menu_item(prev, d1), d2),
                       prev.active_menu_index)
               = BooleanAt(prev, prev.active_menu_index)

\* a decrement on the soft-17 option
C10_Witness ==
    /\ Adjusted
    /\ IsLeft(event)
    /\ prev.active_menu_index = 1
    /\ prev.dealer_stands_on_soft_17
    /\ ~screen.dealer_stands_on_soft_17

\* the totals a lookup of a category accepts
ValidTotals(category) ==
    CASE category = "Hard" -> 5..21
      [] category = "Soft" -> 13..21
      [] category = "Pair" -> 2..11

\* the lookup has returned the error that names an invalid total
IsInvalidTotalError(res) ==
    /\ ~res.ok
    /\ res.value \in {"Invalid hard hand total", "Invalid soft hand total",
                      "Invalid pair value"}

\* C11: a lookup fails with the invalid-total error, whatever the tables
\* hold, for every hard total outside 5..21, every soft total outside 13..21
\* and every pair value outside 2..11.
C11_InvalidTotalIsRejected ==
    (pc = "looked" /\ ~(lookup.total \in ValidTotals(lookup.category)))
        => IsInvalidTotalError(lookup.result[1])

\* C12: a lookup with a valid total and a dealer upcard outside 2..11 (0, 1,
\* 12, ...) fails with the invalid-upcard error; it returns before the index
\* upcard-2 is computed, so the result does not depend on any row.
C12_InvalidUpcardIsRejected ==
    (/\ pc = "looked"
     /\ lookup.total \in ValidTotals(lookup.category)
     /\ ~(lookup.dealer_upcard \in 2..11))
    => lookup.result = Some(Err("Invalid dealer upcard"))

\* the eight codes of the action vocabulary
ActionCodes == {"H", "S", "D", "Ds", "P", "Su", "Rs", "Ph"}

\* the three ways a hard-hand lookup with valid arguments fails
HardLookupFails(strategy, total, upcard) ==
    IF ~HasRowWith(strategy.tables.hard_hands, "total", total) THEN TRUE
    ELSE LET actions == FirstRowWith(strategy.tables.hard_hands, "total", total)
         IN  IF Len(actions) < upcard - 1 THEN TRUE
             ELSE ~(actions[upcard - 1] \in ActionCodes)

\* C13: a hard-hand lookup with a total in 5..21 and an upcard in 2..11
\* returns an error exactly when no row has that total, or the first row
\* with that total has fewer than upcard-1 actions, or the code at index
\* upcard-2 is not in the vocabulary; otherwise it returns an action.
C13_HardLookupErrorsExactly ==
    (/\ pc = "looked"
     /\ lookup.category = "Hard"
     /\ lookup.total \in 5..21
     /\ lookup.dealer_upcard \in 2..11)
    => LET res == lookup.result[1]
       IN  /\ res.ok \in BOOLEAN
           /\ ~res.ok <=> HardLookupFails(lookup.strategy, lookup.total, lookup.dealer_upcard)
           /\ res.ok => res.value \in PlayerAction

\* the first row for total 5 has three actions and the upcard asks for the fifth
C13_Witness ==
    /\ pc = "looked"
    /\ lookup.category = "Hard"
    /\ lookup.strategy.tables = TablesOdd
    /\ lookup.total = 5
    /\ lookup.dealer_upcard = 5
    /\ lookup.result = Some(Err("Missing action for dealer upcard"))

\* C14: for each of the eight actions, decoding its code gives that action
\* back; the eight codes are pairwise distinct; decoding any string that is
\* not one of the eight codes fails.
C14_CodeRoundTrip ==
    pc = "converted" =>
        /\ codec.round_trip = Some(Ok(codec.action))
        /\ codec.encoded[1] \in ActionCodes
        /\ \A other \in PlayerAction \ {codec.action} :
             to_code_string(other) # codec.encoded[1]
        /\ Cardinality({ to_code_string(a) : a \in PlayerAction }) = 8
        /\ ~(codec.code \in ActionCodes) => ~codec.decoded[1].ok
        /\ codec.code \in ActionCodes =>
             /\ codec.decoded[1].ok
             /\ to_code_string(codec.decoded[1].value) = codec.code

\* SurrenderOrStand goes through "Rs" and back, and "ds" in lower case is no code
C14_Witness ==
    /\ pc = "converted"
    /\ codec.action = "SurrenderOrStand"
    /\ codec.encoded = Some("Rs")
    /\ codec.round_trip = Some(Ok("SurrenderOrStand"))
    /\ codec.code = "ds"
    /\ codec.decoded = Some(Err("Unknown action code"))

\* the key codes a screen's update has an arm for
RecognizedKeys(kind) ==
    CASE kind = "Menu" -> {"q", "j", "Down", "k", "Up", "Enter"}
      [] kind = "AboutUs" -> {"q", "m", "j", "Down", "k", "Up"}
      [] kind = "StrategyCalculator" ->
            {"q", "m", "j", "Down", "k", "Up", "l", "Right", "h", "Left"}

\* an input that changes nothing on the screen that reads it
IsInformational(s, ev) ==
    \/ ev.type = "Key" /\ ev.kind = "Release"
    \/ IsPress(ev) /\ ~(ev.code \in RecognizedKeys(s.kind))

\* C15: the loop goes back to drawing only after a response that reports a
\* visual change (Refresh or a navigation); after a key release, an
\* unrecognized key press or a NoOp response it reads the next input
\* without a redraw in between.
C15_RedrawOnlyAfterVisualChange ==
    (pc = "draw" /\ prev # NoScreen) =>
        /\ response \in {"Refresh", "NavToMainMenu", "NavToAboutUs",
                         "NavToStrategyCalculator"}
        /\ ~IsInformational(prev, event)

\* C16: run_app starts on the menu; whenever the active screen (Menu,
\* AboutUs or StrategyCalculator) reads a press of 'q' it answers Exit and
\* run_app returns Ok(()); once run_app has returned no draw and no update
\* happens any more.
C16_QuitOnQ ==
    /\ mode = "run_app" => (screen = MenuScreen_new /\ pc = "draw")
    /\ []((IsPress(event) /\ event.code = "q")
            => (response = "Exit" /\ pc = "returned" /\ result = "Ok"))
    /\ [][pc # "returned"]_vars

\* the About screen has read 'q' and the loop has returned
C16_Witness ==
    /\ mode = "run_app"
    /\ prev.kind = "AboutUs"
    /\ event = KeyEvent("Press", "q")
    /\ response = "Exit"
    /\ pc = "returned"
    /\ result = "Ok"

\* a screen as its constructor leaves it
IsDefaultState(kind, s) ==
    CASE kind = "Menu" -> s = MenuScreen_new
      [] kind = "AboutUs" -> s = AboutUsScreen_new
      [] kind = "StrategyCalculator" ->
            \E dir \in Directories :
               \E order \in Orders(DOMAIN LoadCache(dir)) :
                  s = StrategyCalculatorScreen_new(dir, order)

\* C17: after every navigation response the loop holds the target screen in
\* its default state (menu cursor 0; About scroll offset 0; calculator with
\* cursor 0, default toggles and a newly loaded cache), and nothing of the
\* screen that was left.
C17_NavigationStartsFromDefault ==
    (pc = "draw" /\ response \in {"NavToMainMenu", "NavToAboutUs", "NavToStrategyCalculator"})
        => IsDefaultState(NavTarget(response), screen)

\* the entry is a regular file named *.json whose content loads
Loads(e) == e.is_file /\ e.ext = "json" /\ from_file(e).ok

\* C18: the construction completes on every listing; the cache holds every
\* .json file that loads, under its file name without the extension, and
\* nothing else: files that fail to read or parse are skipped and entries
\* that are not .json files are ignored; a listing of one valid and one
\* invalid .json file gives exactly one entry.
C18_CacheBuildIsBestEffort ==
    /\ pc = "new" => ENABLED Construct
    /\ pc = "constructed" =>
         LET cache == screen.strategy_cache
             listing == strategies_dir[2]
             json_files == { e \in listing : e.is_file /\ e.ext = "json" }
         IN  /\ \A e \in listing :
                    Loads(e) => /\ e.stem \in DOMAIN cache
                                /\ cache[e.stem] = from_file(e).value
             /\ \A k \in DOMAIN cache : \E e \in listing : Loads(e) /\ e.stem = k
             /\ (/\ Cardinality(json_files) = 2
                 /\ Cardinality({ e \in json_files : Loads(e) }) = 1)
                => Cardinality(DOMAIN cache) = 1

\* one valid and one invalid .json file, and a text file
C18_Witness ==
    /\ pc = "constructed"
    /\ { e.stem : e \in strategies_dir[2] } = {"default-strategy", "broken", "notes"}
    /\ DOMAIN screen.strategy_cache = {"default-strategy"}

\* C19: whatever document the loader accepted, drawing the calculator with
\* it as the active strategy completes: no step of the rendering, the
\* subtraction total - 11 of each soft-hand row included, panics.
C19_RenderingNeverPanics ==
    ~(/\ pc = "panicked"
      /\ IsCalculator(screen)
      /\ response = "none")

\* the rows of the three tables of a document
AllRows(strategy) ==
    { strategy.tables.hard_hands[i] : i \in DOMAIN strategy.tables.hard_hands }
    \cup { strategy.tables.soft_hands[i] : i \in DOMAIN strategy.tables.soft_hands }
    \cup { strategy.tables.pair_hands[i] : i \in DOMAIN strategy.tables.pair_hands }

\* C20: for every listing the loader accepts files from, every row of every
\* table of every cached document has exactly 10 action entries.
C20_RowsHaveTenActions ==
    pc = "constructed" =>
        \A k \in DOMAIN screen.strategy_cache :
            \A row \in AllRows(screen.strategy_cache[k]) : Len(row.actions) = 10

\* the text is JSON of the schema and its surrender literal is one of the three
ParsesButForId(json) ==
    /\ json.well_formed
    /\ json.rules.surrender_allowed \in
          {"Not Allowed", "Any Dealer Upcard", "Dealer 2 through 10"}

\* C21: parsing a document whose id field is absent or the nil identifier
\* succeeds and gives a document with a new non-nil id; parsing a document
\* with a non-nil id keeps that id; every parsed document has a non-nil id.
C21_ParsedIdIsNeverNil ==
    pc = "parsed" =>
        LET res == parse.result[1]
        IN  /\ ParsesButForId(parse.json) =>
                 /\ res.ok
                 /\ IF parse.json.id \in {"absent", NilUuid}
                    THEN ~(res.value.id \in {"absent", NilUuid})
                    ELSE res.value.id = parse.json.id
            /\ res.ok => res.value.id # NilUuid

\* the three textual forms of the surrender rule
SurrenderForms == {"Not Allowed", "Any Dealer Upcard", "Dealer 2 through 10"}

\* C22: the surrender rule has exactly three textual forms; a rule
\* converted to text and back is the same rule; every other string fails to
\* parse, and a document that carries it fails to parse as a whole.
C22_SurrenderTextRoundTrip ==
    pc = "parsed" =>
        LET literal == parse.json.rules.surrender_allowed
        IN  /\ parse.round_trip = Some([ok |-> TRUE, value |-> parse.rule])
            /\ { SurrenderRule_to_string(r) : r \in SurrenderRule } = SurrenderForms
            /\ Cardinality(SurrenderForms) = 3
            /\ literal \in SurrenderForms =>
                 /\ SurrenderRule_from_string(literal).ok
                 /\ SurrenderRule_to_string(SurrenderRule_from_string(literal).value) = literal
            /\ ~(literal \in SurrenderForms) =>
                 /\ ~SurrenderRule_from_string(literal).ok
                 /\ ~parse.result[1].ok

\* a document that is valid but for the literal "Sometimes" is rejected
C22_Witness ==
    /\ pc = "parsed"
    /\ parse.rule = "Dealer2Through10"
    /\ parse.round_trip = Some([ok |-> TRUE, value |-> "Dealer2Through10"])
    /\ parse.json.well_formed
    /\ parse.json.id = NilUuid
    /\ parse.json.rules.surrender_allowed = "Sometimes"
    /\ ~parse.result[1].ok

\* the rule set a listed file loads with
RulesOf(e) == from_file(e).value.rules

\* the name the exact-match scan of a constructed screen gives for a rule set
ExactMatchFor(s, rules) ==
    find_exact_matching_strategy(s.strategy_cache, s.iteration_order, rules.decks,
                                 rules.dealer_stands_on_soft_17, rules.double_after_split,
                                 rules.dealer_peak, rules.surrender_allowed)

\* C23: when two loaded documents have the same rule set, the exact-match
\* scan for that rule set gives the one that was loaded last, and never the
\* one loaded before it.
C23_LastLoadedWins ==
    pc = "constructed" =>
        LET order == strategies_dir[3]
        IN  \A i, j \in DOMAIN order :
               (/\ i < j
                /\ Loads(order[i])
                /\ Loads(order[j])
                /\ RulesOf(order[i]) = RulesOf(order[j])
                /\ \A k \in DOMAIN order :
                      (k > j /\ Loads(order[k])) => RulesOf(order[k]) # RulesOf(order[j]))
               => ExactMatchFor(screen, RulesOf(order[j])) = Some(order[j].stem)

IsRelease(ev) == ev.type = "Key" /\ ev.kind = "Release"

\* C24: a key-release event read by any of the three screens leaves the
\* screen as it was (cursor, toggles, active strategy, scroll offset) and
\* causes neither a navigation nor the exit.
C24_ReleaseChangesNothing ==
    (IsRelease(event) /\ prev # NoScreen) =>
        /\ screen = prev
        /\ ~(response \in {"Exit", "NavToMainMenu", "NavToAboutUs",
                           "NavToStrategyCalculator"})
        /\ ~(pc = "returned" /\ result = "Ok")

\* the calculator has read the release of 'l' with the cursor on the decks
C24_Witness ==
    /\ IsCalculator(prev)
    /\ event = KeyEvent("Release", "l")
    /\ prev.active_menu_index = 0
    /\ prev.number_of_decks = 2
    /\ screen = prev

Flag(b) == IF b THEN "y" ELSE "n"

\* C25: the key of a rule set is decks{n}_s17{f}_das{f}_peak{f}_surr{f}
\* with every flag, the surrender one included, the single character y or
\* n; (2, true, true, true, NotAllowed) gives decks2_s17y_dasy_peaky_surry
\* and (1, false, false, false, NotAllowed) gives
\* decks1_s17n_dasn_peakn_surrn.
C25_KeyIsMadeOfFlags ==
    pc = "keyed" =>
        LET r == strategy_key.rules
            prefix == "decks" \o ToString(r.decks)
                      \o "_s17" \o Flag(r.dealer_stands_on_soft_17)
                      \o "_das" \o Flag(r.double_after_split)
                      \o "_peak" \o Flag(r.dealer_peak) \o "_surr"
        IN  /\ strategy_key.result[1] \in { prefix \o "y", prefix \o "n" }
            /\ r = Rules(2, TRUE, TRUE, TRUE, "NotAllowed")
                 => strategy_key.result = Some("decks2_s17y_dasy_peaky_surry")
            /\ r = Rules(1, FALSE, FALSE, FALSE, "NotAllowed")
                 => strategy_key.result = Some("decks1_s17n_dasn_peakn_surrn")

\* C26: right after the construction, whatever the strategies directory
\* holds (nothing, or no directory at all, included), the toggles are
\* decks 1, stands on soft 17, double after split, surrender NotAllowed and
\* peek, and the active strategy has exactly this rule set: it is a cached
\* document that matches them, or the built-in default with empty tables.
C26_ConstructorDefaults ==
    pc = "constructed" =>
        /\ screen.active_menu_index = 0
        /\ Toggles(screen) = Rules(1, TRUE, TRUE, TRUE, "NotAllowed")
        /\ screen.strategy.rules = Toggles(screen)
        /\ \/ \E k \in Matching(screen) :
                 /\ screen.strategy = screen.strategy_cache[k]
                 /\ screen.active_strategy_name = k
           \/ /\ Matching(screen) = {}
              /\ screen.strategy.name = "Default Strategy"
              /\ screen.strategy.tables = TablesEmpty
              /\ screen.active_strategy_name = "Default"

\* a directory holding only a document for two decks: the built-in default
C26_Witness ==
    /\ pc = "constructed"
    /\ strategies_dir[1]
    /\ DOMAIN screen.strategy_cache = {"random-strategy"}
    /\ screen.strategy = BlackjackStrategy_new
    /\ screen.number_of_decks = 1

\* the option a cursor position addresses
ToggleAt(s, index) ==
    CASE index = 0 -> s.number_of_decks
      [] index = 1 -> s.dealer_stands_on_soft_17
      [] index = 2 -> s.allow_double_after_split
      [] index = 3 -> s.surrender_rule
      [] index = 4 -> s.dealer_peak

\* C27: in the calculator a cursor move changes the cursor only (toggles,
\* active strategy and its name, cache unchanged); an adjustment leaves the
\* cursor, the cache and the four options the cursor is not on unchanged.
C27_CalculatorFrame ==
    /\ (IsCalculator(prev) /\ (IsDown(event) \/ IsUp(event))) =>
          /\ IsCalculator(screen)
          /\ screen = [prev EXCEPT !.active_menu_index = screen.active_menu_index]
    /\ (Adjusted /\ response # "panic") =>
          /\ screen.active_menu_index = prev.active_menu_index
          /\ screen.strategy_cache = prev.strategy_cache
          /\ \A i \in DOMAIN ADJUSTABLE_OPTIONS \ {prev.active_menu_index} :
                ToggleAt(screen, i) = ToggleAt(prev, i)

\* an adjustment of double-after-split that also changed the active strategy
C27_Witness ==
    /\ Adjusted
    /\ response = "Refresh"
    /\ prev.active_menu_index = 2
    /\ screen.allow_double_after_split # prev.allow_double_after_split
    /\ screen.dealer_peak = prev.dealer_peak
    /\ screen.strategy # prev.strategy

\* C28: run_app returns only when a screen answers Exit or a draw fails; an
\* I/O error that a screen's update returns is not propagated and does not
\* end the loop: the loop goes back to drawing the same screen and will
\* read input again.
C28_UpdateErrorNeverEndsLoop ==
    [][/\ pc' = "returned" =>
             \/ pc = "draw" /\ result' = "Err"
             \/ pc = "update" /\ response' = "Exit" /\ result' = "Ok"
       /\ (pc = "update" /\ event'.type = "Err") =>
             /\ response' = "Err"
             /\ pc' = "draw"
             /\ screen' = screen
             /\ result' = "none"]_vars

\* the About screen's update has returned an I/O error and the loop draws again
C28_Witness ==
    /\ prev.kind = "AboutUs"
    /\ event.type = "Err"
    /\ response = "Err"
    /\ pc = "draw"
    /\ screen = prev
    /\ result = "none"

\* C29: a hard-hand lookup validates the total before the dealer upcard and
\* both before it scans the table: with total and upcard both out of range
\* the error is the invalid-total one, and an out-of-range upcard gives the
\* invalid-upcard error also when the table has no row for the total.
C29_ValidationOrder ==
    (pc = "looked" /\ lookup.category = "Hard") =>
        LET has_row == HasRowWith(lookup.strategy.tables.hard_hands, "total", lookup.total)
        IN  /\ (~(lookup.total \in 5..21) /\ ~(lookup.dealer_upcard \in 2..11))
                 => lookup.result = Some(Err("Invalid hard hand total"))
            /\ (lookup.total \in 5..21 /\ ~(lookup.dealer_upcard \in 2..11) /\ ~has_row)
                 => lookup.result = Some(Err("Invalid dealer upcard"))
            /\ (~(lookup.total \in 5..21) /\ lookup.dealer_upcard \in 2..11 /\ ~has_row)
                 => lookup.result = Some(Err("Invalid hard hand total"))

\* total 7 has no row in the document and the upcard is 12
C29_Witness ==
    /\ pc = "looked"
    /\ lookup.category = "Hard"
    /\ lookup.strategy.tables = TablesOdd
    /\ lookup.total = 7
    /\ lookup.dealer_upcard = 12
    /\ lookup.result = Some(Err("Invalid dealer upcard"))

IsAboutUs(s) == s.kind = "AboutUs"

\* text line count minus the visible height (the content area without its
\* two indicator rows), floored at 0
ClaimedMaxScroll(height) ==
    IF TextLines - (height - 2) > 0 THEN TextLines - (height - 2) ELSE 0

\* this step is a completed draw of the About screen on a content area of
\* this height
DrawsAboutUs(height) ==
    /\ pc = "draw"
    /\ pc' = "update"
    /\ IsAboutUs(screen)
    /\ screen' = AboutUsScreen_ui(screen, height)

\* C30: on the About screen the scroll offset after every draw is between
\* 0 and max_scroll; Up at offset 0 leaves it at 0; Down leaves it
\* unchanged as long as no draw of the screen has found the text to be at
\* least as tall as the content area.
C30_ScrollStaysInBounds ==
    /\ []((IsAboutUs(prev) /\ IsUp(event) /\ prev.scroll_offset = 0)
            => screen.scroll_offset = 0)
    /\ []((IsAboutUs(prev) /\ IsDown(event) /\ ~prev.scroll_necessary)
            => screen.scroll_offset = prev.scroll_offset)
    /\ [][/\ \A height \in 0..MaxHeight :
                DrawsAboutUs(height) =>
                   screen'.scroll_offset \in 0..ClaimedMaxScroll(height)
          /\ (IsAboutUs(screen) /\ IsAboutUs(screen')
                /\ ~screen.scroll_necessary /\ screen'.scroll_necessary)
               => \E height \in 0..MaxHeight :
                     /\ pc = "draw"
                     /\ TextLines >= height
                     /\ screen' = AboutUsScreen_ui(screen, height)]_vars

\* a draw has brought the offset down to the max_scroll of a taller area
C30_Witness ==
    /\ IsAboutUs(screen)
    /\ pc = "update"
    /\ screen.scroll_necessary
    /\ screen.scroll_offset = 1
====
